---- MODULE Spec2Model ----
(***************************************************************************)
(* SQLiteORM (sqliteDB.py): one sqlite3 connection opened with             *)
(* isolation_level=None, a boolean in_transaction kept by the class, and   *)
(* the public calls that read, change and group changes of table rows.     *)
(*                                                                         *)
(* The sqlite3 connection is modelled by what the class can observe of it: *)
(* the durable (committed) contents, the contents seen through the         *)
(* connection (working), and whether the engine has a transaction open.    *)
(* Outside an engine transaction every statement commits on its own, so    *)
(* durable = working there.                                                *)
(***************************************************************************)
EXTENDS Integers, Sequences, FiniteSets, TLC

\* ---------------------------------------------------------------- bounds
MaxRowId == 2      \* rowids range over 1..MaxRowId

\* ---------------------------------------------------------------- values
IntV(n) == [t |-> "int", n |-> n, s |-> <<>>]
StrV(s) == [t |-> "str", n |-> 0, s |-> s]
NullV == [t |-> "null", n |-> 0, s |-> <<>>]

Digits == <<"0", "1", "2", "3", "4", "5", "6", "7", "8", "9">>

RECURSIVE IntToText(_)
\* str(n) of a non-negative int, as a sequence of characters
IntToText(n) ==
  IF n < 10 THEN <<Digits[n + 1]>>
  ELSE Append(IntToText(n \div 10), Digits[(n % 10) + 1])

DigitValue(c) == CHOOSE d \in 0..9 : Digits[d + 1] = c

IsDigit(c) == \E d \in 0..9 : Digits[d + 1] = c

LooksInteger(s) == Len(s) > 0 /\ \A i \in 1..Len(s) : IsDigit(s[i])

RECURSIVE TextToInt(_)
TextToInt(s) ==
  IF Len(s) = 0 THEN 0
  ELSE 10 * TextToInt(SubSeq(s, 1, Len(s) - 1)) + DigitValue(s[Len(s)])

\* f"{val}" of a Python int or str
PyStr(v) == IF v.t = "int" THEN IntToText(v.n) ELSE v.s

\* the character that opens and closes a text literal of a statement
Quote == "'"

RECURSIVE ReadLiteral(_)
\* the engine reading a text literal whose opening quote it has passed: two
\* quotes in a row stand for one quote of the text, a single quote closes
\* the literal. closed is FALSE when the characters end inside the literal;
\* rest is what follows the closing quote.
ReadLiteral(chars) ==
  IF chars = <<>> THEN [closed |-> FALSE, text |-> <<>>, rest |-> <<>>]
  ELSE IF Head(chars) # Quote
    THEN LET r == ReadLiteral(Tail(chars))
         IN [r EXCEPT !.text = <<Head(chars)>> \o @]
  ELSE IF Len(chars) >= 2 /\ chars[2] = Quote
    THEN LET r == ReadLiteral(SubSeq(chars, 3, Len(chars)))
         IN [r EXCEPT !.text = <<Quote>> \o @]
  ELSE [closed |-> TRUE, text |-> <<>>, rest |-> Tail(chars)]

\* ---------------------------------------------------------------- schema
\* the table the row operations are called on
TableNames == {"t"}

\* a second table, named only in calls of create_table and drop_table
OtherTables == {"u"}

AllTables == TableNames \cup OtherTables

\* PRAGMA table_info of the table the tests create
Schema == [id |-> "INTEGER", name |-> "TEXT", age |-> "INTEGER"]

Columns == DOMAIN Schema

NoTable == [exists |-> FALSE, rows |-> {}]

EmptyTable == [exists |-> TRUE, rows |-> {}]

\* a kwargs dict: a sequence of (column, value) pairs in insertion order
KW(c, v) == [col |-> c, val |-> v]

Keys(kwargs) == {kwargs[i].col : i \in 1..Len(kwargs)}

Lookup(kwargs, c) == kwargs[CHOOSE i \in 1..Len(kwargs) : kwargs[i].col = c].val

\* column affinity applied to the operand of a comparison with a column
Affinity(ctype, v) ==
  IF ctype = "INTEGER" /\ v.t = "str" /\ LooksInteger(v.s)
    THEN IntV(TextToInt(v.s))
    ELSE v

\* col = operand, as the engine evaluates it for one row
SqlEq(ctype, stored, operand) ==
  /\ stored.t # "null"
  /\ operand.t # "null"
  /\ stored = Affinity(ctype, operand)

Matches(row, conds) ==
  \A i \in 1..Len(conds) : SqlEq(Schema[conds[i].col], row[conds[i].col], conds[i].val)

Ids(rows) == {r.id.n : r \in rows}

Max(S) == CHOOSE x \in S : \A y \in S : y <= x

NextRowId(rows) == IF rows = {} THEN 1 ELSE Max(Ids(rows)) + 1

RECURSIVE SortById(_)
\* the rows in rowid order, as a table scan returns them
SortById(rows) ==
  IF rows = {} THEN <<>>
  ELSE LET m == CHOOSE r \in rows : r.id.n = Max(Ids(rows))
       IN Append(SortById(rows \ {m}), m)

\* ------------------------------------------------ the sqlite3 connection
\* A call works on a record s: flag is self.in_transaction, txn says whether
\* the engine has a transaction open, durable and working are the database
\* contents, trace lists what the call has asked of the connection so far.

\* an entry of trace: what was asked, whether the engine had a transaction
\* open at that moment, and whether the connection completed it
Log(s, d, ok) == [s EXCEPT !.trace = Append(@, [d |-> d, txn |-> s.txn, ok |-> ok])]

\* the contents after a statement: outside an engine transaction the
\* statement commits on its own (isolation_level=None)
Store(s, db) ==
  IF s.txn THEN [s EXCEPT !.working = db]
  ELSE [s EXCEPT !.working = db, !.durable = db]

\* connection.execute('BEGIN TRANSACTION;')
connection_begin(s) ==
  IF s.txn
    THEN [st |-> Log(s, "BEGIN", FALSE), err |-> TRUE]
    ELSE [st |-> [Log(s, "BEGIN", TRUE) EXCEPT !.txn = TRUE], err |-> FALSE]

\* connection.commit(); ok is whether the engine can complete a COMMIT
connection_commit(s, ok) ==
  IF ~s.txn THEN [st |-> Log(s, "COMMIT", TRUE), err |-> FALSE]
  ELSE IF ok
    THEN [st |-> [Log(s, "COMMIT", TRUE) EXCEPT !.txn = FALSE, !.durable = s.working],
          err |-> FALSE]
    ELSE [st |-> Log(s, "COMMIT", FALSE), err |-> TRUE]

\* connection.rollback(); ok is whether the engine can complete a ROLLBACK
connection_rollback(s, ok) ==
  IF ~s.txn THEN [st |-> Log(s, "ROLLBACK", TRUE), err |-> FALSE]
  ELSE IF ok
    THEN [st |-> [Log(s, "ROLLBACK", TRUE) EXCEPT !.txn = FALSE, !.working = s.durable],
          err |-> FALSE]
    ELSE [st |-> Log(s, "ROLLBACK", FALSE), err |-> TRUE]

\* the row an INSERT of kwargs adds to rows
NewRow(rows, kwargs) ==
  [c \in Columns |->
     IF c \in Keys(kwargs) THEN Lookup(kwargs, c)
     ELSE IF c = "id" THEN IntV(NextRowId(rows))
     ELSE NullV]

InsertFails(db, tn, kwargs) ==
  \/ ~db[tn].exists
  \/ ~(Keys(kwargs) \subseteq Columns)
  \/ NewRow(db[tn].rows, kwargs).id.n \in Ids(db[tn].rows)

InsertEffect(db, tn, kwargs) ==
  [db EXCEPT ![tn].rows = @ \cup {NewRow(@, kwargs)}]

\* cursor_insert with cursor.rowcount read in place of cursor.lastrowid
cursor_insert_returns_rowcount(s, tn, kwargs) ==
  IF InsertFails(s.working, tn, kwargs)
    THEN [st |-> Log(s, "INSERT", FALSE), err |-> TRUE, n |-> 0]
    ELSE [st |-> Store(Log(s, "INSERT", TRUE), InsertEffect(s.working, tn, kwargs)),
          err |-> FALSE,
          n |-> 1]

\* cursor.execute('INSERT INTO tn (columns) VALUES (?, ...)', values)
cursor_insert(s, tn, kwargs) ==
  IF InsertFails(s.working, tn, kwargs)
    THEN [st |-> Log(s, "INSERT", FALSE), err |-> TRUE, n |-> 0]
    ELSE [st |-> Store(Log(s, "INSERT", TRUE), InsertEffect(s.working, tn, kwargs)),
          err |-> FALSE,
          n |-> NewRow(s.working[tn].rows, kwargs).id.n]

UpdatedRow(row, kwargs) ==
  [c \in Columns |-> IF c \in Keys(kwargs) THEN Lookup(kwargs, c) ELSE row[c]]

\* the UPDATE without its WHERE clause
UpdatedRows_without_where(rows, filters, kwargs) ==
  {UpdatedRow(r, kwargs) : r \in rows}

UpdatedRows(rows, filters, kwargs) ==
  {IF Matches(r, filters) THEN UpdatedRow(r, kwargs) ELSE r : r \in rows}

UpdateFails(db, tn, filters, kwargs) ==
  \/ ~db[tn].exists
  \/ ~(Keys(kwargs) \subseteq Columns)
  \/ ~(Keys(filters) \subseteq Columns)
  \/ Cardinality(Ids(UpdatedRows(db[tn].rows, filters, kwargs))) # Cardinality(db[tn].rows)

UpdateEffect(db, tn, filters, kwargs) ==
  [db EXCEPT ![tn].rows = UpdatedRows(@, filters, kwargs)]

\* cursor.execute('UPDATE tn SET c=?, ... WHERE f=? AND ...', values)
cursor_update(s, tn, filters, kwargs) ==
  IF UpdateFails(s.working, tn, filters, kwargs)
    THEN [st |-> Log(s, "UPDATE", FALSE), err |-> TRUE, n |-> 0]
    ELSE [st |-> Store(Log(s, "UPDATE", TRUE), UpdateEffect(s.working, tn, filters, kwargs)),
          err |-> FALSE,
          n |-> Cardinality({r \in s.working[tn].rows : Matches(r, filters)})]

\* '{val}' as the engine reads it
Literal(v) == ReadLiteral(PyStr(v) \o <<Quote>>)

\* the statement cannot be read: the literal written for v is not closed,
\* or it is closed before the end of v and what follows leaves a quote open.
\* (A text that closes the literal early and leaves a well-formed condition
\* behind it is not among the inputs.)
LiteralFails(v) ==
  LET l == Literal(v)
  IN \/ ~l.closed
     \/ Cardinality({i \in 1..Len(l.rest) : l.rest[i] = Quote}) % 2 = 1

\* ' AND '.join([f"{col}='{val}'" ...]): every value becomes a text literal
DeleteConditions(kwargs) ==
  [i \in 1..Len(kwargs) |-> KW(kwargs[i].col, StrV(Literal(kwargs[i].val).text))]

DeleteFails(db, tn, kwargs) ==
  \/ Len(kwargs) = 0
  \/ \E i \in 1..Len(kwargs) : LiteralFails(kwargs[i].val)
  \/ ~db[tn].exists
  \/ ~(Keys(kwargs) \subseteq Columns)

DeleteEffect(db, tn, kwargs) ==
  [db EXCEPT ![tn].rows = {r \in @ : ~Matches(r, DeleteConditions(kwargs))}]

\* cursor.execute("DELETE FROM tn WHERE c='v' AND ...;")
cursor_delete(s, tn, kwargs) ==
  IF DeleteFails(s.working, tn, kwargs)
    THEN [st |-> Log(s, "DELETE", FALSE), err |-> TRUE, n |-> 0]
    ELSE [st |-> Store(Log(s, "DELETE", TRUE), DeleteEffect(s.working, tn, kwargs)),
          err |-> FALSE,
          n |-> Cardinality({r \in s.working[tn].rows : Matches(r, DeleteConditions(kwargs))})]

\* ------------------------------------------------------------ SQLiteORM
\* Every method yields [st, exc, ret]: the record after the call, the
\* exception class it raised ("none" when it returned) and what it returned.

RetNone == [k |-> "none", n |-> 0, rows |-> <<>>]

RetInt(n) == [k |-> "int", n |-> n, rows |-> <<>>]

RetBool(b) == [k |-> "bool", n |-> IF b THEN 1 ELSE 0, rows |-> <<>>]

RetRows(rows) == [k |-> "rows", n |-> 0, rows |-> rows]

\* a dict or list with one entry per column of a table
RetCols(cols) == [k |-> "cols", n |-> Cardinality(cols), rows |-> <<>>]

Returns(s, ret) == [st |-> s, exc |-> "none", ret |-> ret]

Raises(s, e) == [st |-> s, exc |-> e, ret |-> RetNone]

\* begin_transaction without the setting of the flag after BEGIN
begin_transaction_without_flag(s) ==
  LET b == connection_begin(s)
  IN IF b.err THEN Raises(b.st, "Exception") ELSE Returns(b.st, RetNone)

begin_transaction(s) ==
  LET b == connection_begin(s)
  IN IF b.err THEN Raises(b.st, "Exception")
     ELSE Returns([b.st EXCEPT !.flag = TRUE], RetNone)

\* commit_transaction without the reset of the flag after a completed commit
commit_transaction_keeps_flag(s, cok, rok) ==
  LET c == connection_commit(s, cok)
  IN IF ~c.err THEN Returns(c.st, RetNone)
     ELSE LET r == connection_rollback(c.st, rok)
          IN IF r.err THEN Raises(r.st, "sqlite3.Error")
             ELSE Raises([r.st EXCEPT !.flag = FALSE], "Exception")

commit_transaction(s, cok, rok) ==
  LET c == connection_commit(s, cok)
  IN IF ~c.err THEN Returns([c.st EXCEPT !.flag = FALSE], RetNone)
     ELSE LET r == connection_rollback(c.st, rok)
          IN IF r.err THEN Raises(r.st, "sqlite3.Error")
             ELSE Raises([r.st EXCEPT !.flag = FALSE], "Exception")

\* rollback_transaction without the test of the flag
rollback_transaction_unguarded(s, rok) ==
  LET r == connection_rollback(s, rok)
  IN IF r.err THEN Raises(r.st, "Exception")
     ELSE Returns([r.st EXCEPT !.flag = FALSE], RetNone)

rollback_transaction(s, rok) ==
  IF s.flag
    THEN LET r == connection_rollback(s, rok)
         IN IF r.err THEN Raises(r.st, "Exception")
            ELSE Returns([r.st EXCEPT !.flag = FALSE], RetNone)
    ELSE Returns(s, RetNone)

create_table(s, tn, cok) ==
  LET db == IF s.working[tn].exists THEN s.working
            ELSE [s.working EXCEPT ![tn] = EmptyTable]
      x == Store(Log(s, "CREATE TABLE", TRUE), db)
      c == connection_commit(x, cok)
  IN IF c.err THEN Raises(c.st, "Exception") ELSE Returns(c.st, RetNone)

drop_table(s, tn, cok, rok) ==
  LET x == Store(Log(s, "DROP TABLE", TRUE), [s.working EXCEPT ![tn] = NoTable])
      c == connection_commit(x, cok)
  IN IF ~c.err THEN Returns(c.st, RetNone)
     ELSE LET r == connection_rollback(c.st, rok)
          IN IF r.err THEN Raises(r.st, "sqlite3.Error")
             ELSE Raises(r.st, "Exception")

get_table_schema(s, tn) ==
  [st |-> Log(s, "PRAGMA", TRUE),
   cols |-> IF s.working[tn].exists THEN Columns ELSE {}]

\* the isinstance checks of create for one (column, value) pair
TypeMismatch(ctype, v) ==
  \/ ctype = "INTEGER" /\ v.t # "int"
  \/ ctype = "TEXT" /\ v.t # "str"

RECURSIVE CheckColumns(_, _, _)
\* the validation loop of create, from pair i on: the first error it raises
CheckColumns(cols, kwargs, i) ==
  IF i > Len(kwargs) THEN "none"
  ELSE IF kwargs[i].col \notin cols THEN "ValueError"
  ELSE IF TypeMismatch(Schema[kwargs[i].col], kwargs[i].val) THEN "TypeError"
  ELSE CheckColumns(cols, kwargs, i + 1)

\* create's try block committing after every insert, whoever opened the
\* transaction
create_body_always_commits(s, tn, kwargs, cok, rok, rok2) ==
  LET in_self_trasaction == ~s.flag
      b == IF in_self_trasaction THEN begin_transaction(s) ELSE Returns(s, RetNone)
      x == cursor_insert(b.st, tn, kwargs)
      c == commit_transaction(x.st, cok, rok)
      h == IF c.st.flag THEN rollback_transaction(c.st, rok2) ELSE Returns(c.st, RetNone)
      f == IF x.st.flag THEN rollback_transaction(x.st, rok) ELSE Returns(x.st, RetNone)
  IN IF b.exc # "none" THEN Raises(b.st, "Exception")
     ELSE IF x.err THEN Raises(f.st, "Exception")
     ELSE IF c.exc = "none" THEN Returns(c.st, RetInt(x.n))
     ELSE IF c.exc = "sqlite3.Error" THEN Raises(h.st, "Exception")
     ELSE Raises(c.st, "Exception")

\* the try block of create and its except branch
create_body(s, tn, kwargs, cok, rok, rok2) ==
  LET in_self_trasaction == ~s.flag
      b == IF in_self_trasaction THEN begin_transaction(s) ELSE Returns(s, RetNone)
      x == cursor_insert(b.st, tn, kwargs)
      c == commit_transaction(x.st, cok, rok)
      h == IF c.st.flag THEN rollback_transaction(c.st, rok2) ELSE Returns(c.st, RetNone)
      f == IF x.st.flag THEN rollback_transaction(x.st, rok) ELSE Returns(x.st, RetNone)
  IN IF b.exc # "none" THEN Raises(b.st, "Exception")
     ELSE IF x.err THEN Raises(f.st, "Exception")
     ELSE IF ~x.st.flag \/ in_self_trasaction
       THEN IF c.exc = "none" THEN Returns(c.st, RetInt(x.n))
            ELSE IF c.exc = "sqlite3.Error" THEN Raises(h.st, "Exception")
            ELSE Raises(c.st, "Exception")
       ELSE Returns(x.st, RetInt(x.n))

\* create opening its transaction before it validates the columns
create_begins_first(s, tn, kwargs, cok, rok, rok2) ==
  IF Len(kwargs) = 0 THEN Raises(s, "ValueError")
  ELSE LET g == get_table_schema(s, tn)
           b == IF ~g.st.flag THEN begin_transaction(g.st) ELSE Returns(g.st, RetNone)
           v == CheckColumns(g.cols, kwargs, 1)
       IN IF g.cols = {} THEN Raises(g.st, "ValueError")
          ELSE IF v # "none" THEN Raises(b.st, v)
          ELSE create_body(g.st, tn, kwargs, cok, rok, rok2)

create(s, tn, kwargs, cok, rok, rok2) ==
  IF Len(kwargs) = 0 THEN Raises(s, "ValueError")
  ELSE LET g == get_table_schema(s, tn)
           v == CheckColumns(g.cols, kwargs, 1)
       IN IF g.cols = {} THEN Raises(g.st, "ValueError")
          ELSE IF v # "none" THEN Raises(g.st, v)
          ELSE create_body(g.st, tn, kwargs, cok, rok, rok2)

\* update with the commit test inverted: it commits only a transaction it
\* did not open
update_leaves_open(s, tn, filters, kwargs, cok, rok, rok2) ==
  IF Len(filters) = 0 \/ Len(kwargs) = 0 THEN Raises(s, "ValueError")
  ELSE
  LET in_self_trasaction == ~s.flag
      b == IF in_self_trasaction THEN begin_transaction(s) ELSE Returns(s, RetNone)
      x == cursor_update(b.st, tn, filters, kwargs)
      c == commit_transaction(x.st, cok, rok)
      h == connection_rollback(c.st, rok2)
      f == connection_rollback(x.st, rok)
  IN IF b.exc # "none" THEN Raises(b.st, "Exception")
     ELSE IF x.err
       THEN Raises(f.st, IF f.err THEN "sqlite3.Error" ELSE "Exception")
     ELSE IF ~in_self_trasaction
       THEN IF c.exc = "none" THEN Returns(c.st, RetInt(x.n))
            ELSE IF c.exc = "sqlite3.Error"
              THEN Raises(h.st, IF h.err THEN "sqlite3.Error" ELSE "Exception")
            ELSE Raises(c.st, "Exception")
       ELSE Returns(x.st, RetInt(x.n))

update(s, tn, filters, kwargs, cok, rok, rok2) ==
  IF Len(filters) = 0 \/ Len(kwargs) = 0 THEN Raises(s, "ValueError")
  ELSE
  LET in_self_trasaction == ~s.flag
      b == IF in_self_trasaction THEN begin_transaction(s) ELSE Returns(s, RetNone)
      x == cursor_update(b.st, tn, filters, kwargs)
      c == commit_transaction(x.st, cok, rok)
      h == connection_rollback(c.st, rok2)
      f == connection_rollback(x.st, rok)
  IN IF b.exc # "none" THEN Raises(b.st, "Exception")
     ELSE IF x.err
       THEN Raises(f.st, IF f.err THEN "sqlite3.Error" ELSE "Exception")
     ELSE IF ~x.st.flag \/ in_self_trasaction
       THEN IF c.exc = "none" THEN Returns(c.st, RetInt(x.n))
            ELSE IF c.exc = "sqlite3.Error"
              THEN Raises(h.st, IF h.err THEN "sqlite3.Error" ELSE "Exception")
            ELSE Raises(c.st, "Exception")
       ELSE Returns(x.st, RetInt(x.n))

delete(s, tn, kwargs, cok, rok, rok2) ==
  LET in_self_trasaction == ~s.flag
      b == IF in_self_trasaction THEN begin_transaction(s) ELSE Returns(s, RetNone)
      x == cursor_delete(b.st, tn, kwargs)
      c == commit_transaction(x.st, cok, rok)
      h == connection_rollback(c.st, rok2)
      f == connection_rollback(x.st, rok)
  IN IF b.exc # "none" THEN Raises(b.st, "Exception")
     ELSE IF x.err
       THEN Raises(f.st, IF f.err THEN "sqlite3.Error" ELSE "Exception")
     ELSE IF ~x.st.flag \/ in_self_trasaction
       THEN IF c.exc = "none" THEN Returns(c.st, RetInt(x.n))
            ELSE IF c.exc = "sqlite3.Error"
              THEN Raises(h.st, IF h.err THEN "sqlite3.Error" ELSE "Exception")
            ELSE Raises(c.st, "Exception")
       ELSE Returns(x.st, RetInt(x.n))

SelectFails(db, tn, kwargs) ==
  \/ ~db[tn].exists
  \/ ~(Keys(kwargs) \subseteq Columns)

\* the rows a SELECT ... WHERE c=? AND ... returns, in rowid order
Select(db, tn, kwargs) == SortById({r \in db[tn].rows : Matches(r, kwargs)})

get(s, tn, kwargs) ==
  IF Len(kwargs) = 0 THEN Raises(s, "ValueError")
  ELSE IF SelectFails(s.working, tn, kwargs)
    THEN Returns(Log(s, "SELECT", FALSE), RetNone)
  ELSE LET rows == Select(s.working, tn, kwargs)
       IN Returns(Log(s, "SELECT", TRUE),
                  IF rows = <<>> THEN RetNone
                  ELSE [k |-> "row", n |-> 0, rows |-> <<Head(rows)>>])

\* filter calling connection.commit() after its SELECT
filter_commits(s, tn, kwargs) ==
  IF SelectFails(s.working, tn, kwargs)
    THEN Returns(Log(s, "SELECT", FALSE), RetRows(<<>>))
    ELSE Returns(connection_commit(Log(s, "SELECT", TRUE), TRUE).st,
                 RetRows(Select(s.working, tn, kwargs)))

filter(s, tn, kwargs) ==
  IF SelectFails(s.working, tn, kwargs)
    THEN Returns(Log(s, "SELECT", FALSE), RetRows(<<>>))
    ELSE Returns(Log(s, "SELECT", TRUE), RetRows(Select(s.working, tn, kwargs)))

all(s, tn) ==
  IF SelectFails(s.working, tn, <<>>)
    THEN Returns(Log(s, "SELECT", FALSE), RetRows(<<>>))
    ELSE Returns(Log(s, "SELECT", TRUE), RetRows(Select(s.working, tn, <<>>)))

exists(s, tn, kwargs) ==
  IF Len(kwargs) = 0 THEN Raises(s, "ValueError")
  ELSE IF SelectFails(s.working, tn, kwargs)
    THEN Returns(Log(s, "SELECT", FALSE), RetBool(FALSE))
  ELSE Returns(Log(s, "SELECT", TRUE), RetBool(Select(s.working, tn, kwargs) # <<>>))

\* count leaving the conditions out of its SELECT COUNT(*)
count_without_where(s, tn, kwargs) ==
  IF SelectFails(s.working, tn, kwargs)
    THEN Returns(Log(s, "SELECT", FALSE), RetInt(0))
    ELSE Returns(Log(s, "SELECT", TRUE), RetInt(Len(Select(s.working, tn, <<>>))))

count(s, tn, kwargs) ==
  IF SelectFails(s.working, tn, kwargs)
    THEN Returns(Log(s, "SELECT", FALSE), RetInt(0))
    ELSE Returns(Log(s, "SELECT", TRUE), RetInt(Len(Select(s.working, tn, kwargs))))

\* get_table_schema called by the user of the class
table_schema(s, tn) ==
  LET g == get_table_schema(s, tn) IN Returns(g.st, RetCols(g.cols))

introspect_table(s, tn) ==
  Returns(Log(s, "PRAGMA", TRUE),
          RetCols(IF s.working[tn].exists THEN Columns ELSE {}))

table_exists(s, tn) ==
  Returns(Log(s, "SELECT", TRUE), RetBool(s.working[tn].exists))

\* connection.close(): the engine discards a transaction that is open
close(s) ==
  Returns([Log(s, "CLOSE", TRUE) EXCEPT !.txn = FALSE, !.working = s.durable], RetNone)

Reads == {"get", "filter", "all", "exists", "count"}

Introspections == {"table_exists", "get_table_schema", "introspect_table"}

\* the result a read or an introspection call gives when its statement fails
OnError(op) ==
  IF op = "get" THEN RetNone
  ELSE IF op \in {"filter", "all"} THEN RetRows(<<>>)
  ELSE IF op = "count" THEN RetInt(0)
  ELSE IF op \in {"exists", "table_exists"} THEN RetBool(FALSE)
  ELSE RetCols({})

\* the statement a call hands to self.cursor
StatementOf(op) ==
  IF op \in Reads \cup {"table_exists"} THEN "SELECT"
  ELSE IF op \in {"get_table_schema", "introspect_table"} THEN "PRAGMA"
  ELSE IF op = "update" THEN "UPDATE"
  ELSE IF op = "delete" THEN "DELETE"
  ELSE IF op = "create_table" THEN "CREATE TABLE"
  ELSE "DROP TABLE"

\* the call op on an object whose close() has returned: self.connection is
\* None, so a use of it raises AttributeError, which no handler of the class
\* catches, and self.cursor raises sqlite3.ProgrammingError on execute
closed_call(op, s, filters, kwargs) ==
  IF op = "close" THEN Returns(s, RetNone)
  ELSE IF op \in {"get", "exists"} /\ Len(kwargs) = 0 THEN Raises(s, "ValueError")
  ELSE IF op \in Reads \cup Introspections
    THEN Returns(Log(s, StatementOf(op), FALSE), OnError(op))
  ELSE IF op = "create"
    THEN IF Len(kwargs) = 0 THEN Raises(s, "ValueError")
         ELSE Raises(Log(s, "PRAGMA", FALSE), "ValueError")
  ELSE IF op = "update" /\ (Len(filters) = 0 \/ Len(kwargs) = 0) THEN Raises(s, "ValueError")
  ELSE IF op \in {"update", "delete"}
    THEN IF s.flag THEN Raises(Log(s, StatementOf(op), FALSE), "AttributeError")
         ELSE Raises(s, "AttributeError")
  ELSE IF op = "create_table" THEN Raises(Log(s, "CREATE TABLE", FALSE), "Exception")
  ELSE IF op = "drop_table" THEN Raises(Log(s, "DROP TABLE", FALSE), "AttributeError")
  ELSE IF op = "rollback_transaction" /\ ~s.flag THEN Returns(s, RetNone)
  ELSE Raises(s, "AttributeError")

\* ---------------------------------------------------------------- state
VARIABLES
  closed,           \* close() has set self.connection to None
  in_transaction,   \* self.in_transaction
  engine_txn,       \* the connection has a transaction begun and not ended
  durable,          \* the committed contents of the database
  working,          \* the contents statements on the connection see
  last,             \* the public call made last, its outcome and its trace
  batch,            \* where the caller is in a begin ... commit/rollback group
  snap,             \* the contents when the group's begin_transaction returned
  expect,           \* snap with the group's statements applied
  pc,               \* per thread: the call it is in and the line it is at
  owner,            \* the thread whose BEGIN opened the engine transaction, or 0
  seen              \* what has happened so far to calls made by two threads

vars ==
  <<closed, in_transaction, engine_txn, durable, working, last, batch, snap, expect,
    pc, owner, seen>>

\* the threads sharing the object (check_same_thread=False)
Threads == {1, 2}

\* a thread outside any call
Idle ==
  [op |-> "idle", at |-> "done", own |-> FALSE, clean |-> FALSE, res |-> "none",
   row |-> 0, pending |-> FALSE, undone |-> 0]

NoDB == [tn \in AllTables |-> NoTable]

NoCall ==
  [op |-> "init", tn |-> "", filters |-> <<>>, kwargs |-> <<>>,
   exc |-> "none", ret |-> RetNone, trace |-> <<>>]

\* SQLiteORM.__init__ on a fresh database
Init ==
  /\ closed = FALSE
  /\ in_transaction = FALSE
  /\ engine_txn = FALSE
  /\ durable = NoDB
  /\ working = NoDB
  /\ last = NoCall
  /\ batch = "none"
  /\ snap = NoDB
  /\ expect = NoDB
  /\ pc = [t \in Threads |-> Idle]
  /\ owner = 0
  /\ seen = {}

\* the record a call starts from
Cur ==
  [flag |-> in_transaction, txn |-> engine_txn, durable |-> durable,
   working |-> working, trace |-> <<>>]

Mutators == {"create", "update", "delete"}

\* what the statement of a mutating call does to a database
Effect(db, op, tn, filters, kwargs) ==
  IF op = "create" THEN InsertEffect(db, tn, kwargs)
  ELSE IF op = "update" THEN UpdateEffect(db, tn, filters, kwargs)
  ELSE DeleteEffect(db, tn, kwargs)

\* the caller's position after the call op with outcome r; a group in which
\* a call has raised is followed while nothing of it has become durable
NextBatch(op, r) ==
  IF op = "begin_transaction"
    THEN IF ~in_transaction /\ r.exc = "none" THEN "clean" ELSE "none"
  ELSE IF batch = "failed" /\ durable # snap
    THEN "none"
  ELSE IF op \in Mutators /\ batch \in {"clean", "failed"}
    THEN IF r.exc = "none" THEN batch ELSE "failed"
  ELSE IF op = "commit_transaction" /\ batch = "clean" /\ r.exc = "none"
    THEN "committed"
  ELSE IF op = "rollback_transaction" /\ batch = "clean" /\ r.exc = "none"
    THEN "rolledback"
  ELSE IF op = "rollback_transaction" /\ batch = "failed" /\ r.exc = "none"
    THEN "rolledback_f"
  ELSE IF op = "rollback_transaction" /\ batch = "committed"
    THEN "committed_rb"
  ELSE "none"

Track(op, tn, filters, kwargs, r) ==
  /\ batch' = NextBatch(op, r)
  /\ snap' = IF op = "begin_transaction" /\ batch' = "clean" THEN working
             ELSE IF batch' # "none" THEN snap
             ELSE NoDB
  /\ expect' = IF op = "begin_transaction" /\ batch' = "clean" THEN working
               ELSE IF op \in Mutators /\ batch' = "clean"
                 THEN Effect(expect, op, tn, filters, kwargs)
               ELSE IF batch' \in {"committed", "committed_rb", "rolledback"} THEN expect
               ELSE NoDB

\* one public call with outcome r while the connection is there: the object
\* and the connection afterwards
Call(op, tn, filters, kwargs, r) ==
  LET q == IF closed THEN closed_call(op, Cur, filters, kwargs) ELSE r
  IN /\ closed' = (closed \/ op = "close")
     /\ in_transaction' = q.st.flag
     /\ engine_txn' = q.st.txn
     /\ durable' = q.st.durable
     /\ working' = q.st.working
     /\ last' = [op |-> op, tn |-> tn, filters |-> filters, kwargs |-> kwargs,
                 exc |-> q.exc, ret |-> q.ret, trace |-> q.st.trace]
     /\ Track(op, tn, filters, kwargs, q)
     /\ UNCHANGED <<pc, owner, seen>>

\* ---------------------------------------------------------------- inputs
\* the names the rows are given: a letter, and the quote character
TextValues == {<<"a">>, <<Quote>>}

IntValues == {1}

CreateInputs ==
  {<<>>,
   <<KW("age", StrV(<<"3", "0">>))>>,
   <<KW("nick", StrV(<<"a">>))>>,
   <<KW("id", IntV(1)), KW("name", StrV(<<"a">>)), KW("age", IntV(1))>>}
  \cup {<<KW("name", StrV(x)), KW("age", IntV(n))>> : x \in TextValues, n \in IntValues}

FilterInputs ==
  {<<>>, <<KW("nick", StrV(<<"a">>))>>, <<KW("name", StrV(<<"a">>))>>}
  \cup {<<KW("age", IntV(n))>> : n \in IntValues}

\* (filters, values) of update
UpdateInputs ==
  {<<f, <<KW("name", StrV(<<Quote>>))>>>> : f \in FilterInputs}
  \cup {<<<<KW("id", IntV(1))>>, <<KW("name", StrV(<<Quote>>))>>>>,
        <<<<KW("name", StrV(<<Quote>>))>>, <<>>>>,
        <<<<KW("name", StrV(<<Quote>>))>>, <<KW("name", StrV(<<"a">>))>>>>}

\* the filters of delete: those of update, a quote, and two quotes
DeleteInputs ==
  FilterInputs
  \cup {<<KW("name", StrV(<<Quote>>))>>, <<KW("name", StrV(<<Quote, Quote>>))>>}

ReadInputs == {<<>>, <<KW("name", StrV(<<"a">>))>>}

\* what the engine can do in one call: complete the COMMIT (cok), complete
\* the ROLLBACK asked first (rok) and the one asked after it (rok2)
EngineOutcomes ==
  {[cok |-> TRUE, rok |-> TRUE, rok2 |-> TRUE],
   [cok |-> TRUE, rok |-> FALSE, rok2 |-> TRUE],
   [cok |-> FALSE, rok |-> TRUE, rok2 |-> TRUE],
   [cok |-> FALSE, rok |-> FALSE, rok2 |-> TRUE],
   [cok |-> FALSE, rok |-> FALSE, rok2 |-> FALSE]}

\* ---------------------------------------------------------------- actions
Create ==
  \E tn \in TableNames, kwargs \in CreateInputs, e \in EngineOutcomes :
    LET r == create(Cur, tn, kwargs, e.cok, e.rok, e.rok2)
    IN /\ Ids(r.st.working[tn].rows) \subseteq 1..MaxRowId
       /\ Call("create", tn, <<>>, kwargs, r)

Update ==
  \E tn \in TableNames, u \in UpdateInputs, e \in EngineOutcomes :
    Call("update", tn, u[1], u[2], update(Cur, tn, u[1], u[2], e.cok, e.rok, e.rok2))

Delete ==
  \E tn \in TableNames, kwargs \in DeleteInputs, e \in EngineOutcomes :
    Call("delete", tn, <<>>, kwargs, delete(Cur, tn, kwargs, e.cok, e.rok, e.rok2))

Get ==
  \E tn \in TableNames, kwargs \in ReadInputs :
    Call("get", tn, <<>>, kwargs, get(Cur, tn, kwargs))

Filter ==
  \E tn \in TableNames, kwargs \in ReadInputs :
    Call("filter", tn, <<>>, kwargs, filter(Cur, tn, kwargs))

All ==
  \E tn \in TableNames : Call("all", tn, <<>>, <<>>, all(Cur, tn))

Exists ==
  \E tn \in TableNames, kwargs \in ReadInputs :
    Call("exists", tn, <<>>, kwargs, exists(Cur, tn, kwargs))

Count ==
  \E tn \in TableNames, kwargs \in ReadInputs :
    Call("count", tn, <<>>, kwargs, count(Cur, tn, kwargs))

BeginTransaction ==
  Call("begin_transaction", "", <<>>, <<>>, begin_transaction(Cur))

CommitTransaction ==
  \E e \in EngineOutcomes :
    Call("commit_transaction", "", <<>>, <<>>, commit_transaction(Cur, e.cok, e.rok))

RollbackTransaction ==
  \E e \in EngineOutcomes :
    Call("rollback_transaction", "", <<>>, <<>>, rollback_transaction(Cur, e.rok))

CreateTable ==
  \E tn \in TableNames, e \in EngineOutcomes :
    Call("create_table", tn, <<>>, <<>>, create_table(Cur, tn, e.cok))

DropTable ==
  \E tn \in TableNames, e \in EngineOutcomes :
    Call("drop_table", tn, <<>>, <<>>, drop_table(Cur, tn, e.cok, e.rok))

TableExists ==
  \E tn \in TableNames : Call("table_exists", tn, <<>>, <<>>, table_exists(Cur, tn))

GetTableSchema ==
  \E tn \in TableNames : Call("get_table_schema", tn, <<>>, <<>>, table_schema(Cur, tn))

IntrospectTable ==
  \E tn \in TableNames : Call("introspect_table", tn, <<>>, <<>>, introspect_table(Cur, tn))

Close == Call("close", "", <<>>, <<>>, close(Cur))

Next ==
  \/ Create
  \/ Update
  \/ Delete
  \/ Get
  \/ Filter
  \/ All
  \/ Exists
  \/ Count
  \/ BeginTransaction
  \/ CommitTransaction
  \/ RollbackTransaction
  \/ CreateTable
  \/ DropTable

Spec == Init /\ [][Next]_vars

\* every public call: those of Next, the introspection calls, create_table
\* and drop_table naming the second table as well, and close
CreateOtherTable ==
  \E tn \in OtherTables, e \in EngineOutcomes :
    Call("create_table", tn, <<>>, <<>>, create_table(Cur, tn, e.cok))

DropOtherTable ==
  \E tn \in OtherTables, e \in EngineOutcomes :
    Call("drop_table", tn, <<>>, <<>>, drop_table(Cur, tn, e.cok, e.rok))

OtherTableExists ==
  \E tn \in OtherTables : Call("table_exists", tn, <<>>, <<>>, table_exists(Cur, tn))

NextAll ==
  \/ Next
  \/ TableExists
  \/ GetTableSchema
  \/ IntrospectTable
  \/ CreateOtherTable
  \/ DropOtherTable
  \/ OtherTableExists
  \/ Close

SpecAll == Init /\ [][NextAll]_vars

\* ------------------------------------------------------------- two threads
\* Two threads call begin_transaction, create, commit_transaction and
\* rollback_transaction on the same object with no lock. A thread can be
\* switched out between any two lines of a method; one call of the
\* connection or the cursor is one step. The table exists, create is given
\* valid values, and the engine completes every COMMIT and ROLLBACK. The
\* value create returns is not followed.

\* SQLiteORM.__init__ and the create_table of the test's setUp
InitThreads ==
  /\ closed = FALSE
  /\ in_transaction = FALSE
  /\ engine_txn = FALSE
  /\ durable = [NoDB EXCEPT !["t"] = EmptyTable]
  /\ working = [NoDB EXCEPT !["t"] = EmptyTable]
  /\ last = NoCall
  /\ batch = "none"
  /\ snap = NoDB
  /\ expect = NoDB
  /\ pc = [t \in Threads |-> Idle]
  /\ owner = 0
  /\ seen = {}

\* the values thread t gives to create
ThreadRow(t) == <<KW("name", StrV(<<"a">>)), KW("age", IntV(t))>>

\* the row that the create thread t is in, or was in last, has inserted is
\* among rows
Inserted(t, rows) ==
  \E r \in rows : r.id.n = pc[t].row /\ r.age = IntV(t)

\* thread t enters the method op at line first
Enter(t, op, first) ==
  /\ pc[t].at = "done"
  /\ pc' = [pc EXCEPT ![t] = [Idle EXCEPT !.op = op, !.at = first, !.clean = (owner # t)]]
  /\ UNCHANGED <<in_transaction, engine_txn, durable, working, owner, seen>>

\* thread t leaves its method
Leave(t, res) == [pc[t] EXCEPT !.at = "done", !.res = res]

CallBeginTransaction(t) == Enter(t, "begin_transaction", "begin")

\* rows are inserted and never deleted here, so a create is entered while
\* there is a rowid left for it and for the creates already under way
CallCreate(t) ==
  /\ Cardinality(working["t"].rows)
       + Cardinality({u \in Threads : pc[u].op = "create" /\ pc[u].at \in {"check", "begin", "set_flag", "insert"}})
       < MaxRowId
  /\ Enter(t, "create", "check")

CallCommitTransaction(t) == Enter(t, "commit_transaction", "commit")

CallRollbackTransaction(t) == Enter(t, "rollback_transaction", "test")

\* if not self.in_transaction: in_self_trasaction = True; self.begin_transaction()
ReadFlag(t) ==
  /\ pc[t].at = "check"
  /\ pc' = [pc EXCEPT ![t].own = ~in_transaction,
                      ![t].at = IF ~in_transaction THEN "begin" ELSE "insert"]
  /\ UNCHANGED <<in_transaction, engine_txn, durable, working, owner, seen>>

\* self.connection.execute('BEGIN TRANSACTION;') of begin_transaction; the
\* Exception it raises on a refusal leaves create as well
Begin(t) ==
  /\ pc[t].at = "begin"
  /\ IF engine_txn
       THEN /\ pc' = [pc EXCEPT ![t] = Leave(t, "raised")]
            /\ seen' = IF pc[t].op = "create" /\ pc[t].clean /\ owner \notin {0, t}
                          THEN seen \cup {"refused"} ELSE seen
            /\ UNCHANGED <<engine_txn, owner>>
       ELSE /\ pc' = [pc EXCEPT ![t].at = "set_flag"]
            /\ engine_txn' = TRUE
            /\ owner' = t
            /\ UNCHANGED seen
  /\ UNCHANGED <<in_transaction, durable, working>>

\* self.in_transaction = True
SetFlag(t) ==
  /\ pc[t].at = "set_flag"
  /\ in_transaction' = TRUE
  /\ pc' = [pc EXCEPT ![t] = IF pc[t].op = "begin_transaction"
                                THEN Leave(t, "returned")
                                ELSE [pc[t] EXCEPT !.at = "insert"]]
  /\ UNCHANGED <<engine_txn, durable, working, owner, seen>>

\* self.cursor.execute(query, values) of create
Insert(t) ==
  /\ pc[t].at = "insert"
  /\ LET db == InsertEffect(working, "t", ThreadRow(t))
     IN /\ working' = db
        /\ durable' = IF engine_txn THEN durable ELSE db
  /\ pc' = [pc EXCEPT ![t].row = NextRowId(working["t"].rows), ![t].at = "decide"]
  /\ UNCHANGED <<in_transaction, engine_txn, owner, seen>>

\* the commit test of create looking at the flag alone
MustCommit_flag_only(flag, in_self_trasaction) == ~flag

\* if not self.in_transaction or in_self_trasaction:
MustCommit(flag, in_self_trasaction) == ~flag \/ in_self_trasaction

Decide(t) ==
  /\ pc[t].at = "decide"
  /\ pc' = [pc EXCEPT ![t].at = IF MustCommit(in_transaction, pc[t].own)
                                   THEN "commit" ELSE "return"]
  /\ UNCHANGED <<in_transaction, engine_txn, durable, working, owner, seen>>

\* self.connection.commit() of commit_transaction
Commit(t) ==
  /\ pc[t].at = "commit"
  /\ durable' = working
  /\ engine_txn' = FALSE
  /\ owner' = 0
  /\ pc' = [pc EXCEPT ![t].at = "clear_flag"]
  /\ UNCHANGED <<in_transaction, working, seen>>

\* self.in_transaction = False of commit_transaction and rollback_transaction
ClearFlag(t) ==
  /\ pc[t].at = "clear_flag"
  /\ in_transaction' = FALSE
  /\ pc' = [pc EXCEPT ![t] = IF pc[t].op = "create"
                                THEN [pc[t] EXCEPT !.at = "return"]
                                ELSE Leave(t, "returned")]
  /\ UNCHANGED <<engine_txn, durable, working, owner, seen>>

\* return self.cursor.lastrowid
Return(t) ==
  /\ pc[t].at = "return"
  /\ pc' = [pc EXCEPT ![t] = [Leave(t, "returned") EXCEPT
                                 !.pending = Inserted(t, working["t"].rows \ durable["t"].rows)]]
  /\ UNCHANGED <<in_transaction, engine_txn, durable, working, owner, seen>>

\* if self.in_transaction: of rollback_transaction
TestFlag(t) ==
  /\ pc[t].at = "test"
  /\ pc' = [pc EXCEPT ![t] = IF in_transaction
                                THEN [pc[t] EXCEPT !.at = "rollback"]
                                ELSE Leave(t, "returned")]
  /\ UNCHANGED <<in_transaction, engine_txn, durable, working, owner, seen>>

\* the rows of creates of thread u that a ROLLBACK now would discard
Discards(u) ==
  /\ pc[u].op = "create"
  /\ Inserted(u, working["t"].rows \ durable["t"].rows)

\* self.connection.rollback() of rollback_transaction
Rollback(t) ==
  /\ pc[t].at = "rollback"
  /\ working' = durable
  /\ engine_txn' = FALSE
  /\ owner' = 0
  /\ pc' = [u \in Threads |->
              IF u = t THEN [pc[t] EXCEPT !.at = "clear_flag"]
              ELSE IF Discards(u) THEN [pc[u] EXCEPT !.undone = t]
              ELSE pc[u]]
  /\ seen' = IF \E u \in Threads \ {t} :
                   Discards(u) /\ pc[u].res = "returned" /\ pc[u].clean /\ pc[u].pending
               THEN seen \cup {"undone"} ELSE seen
  /\ UNCHANGED <<in_transaction, durable>>

\* what no step of a thread touches
Frame == UNCHANGED <<closed, last, batch, snap, expect>>

NextThreads ==
  \/ \E t \in Threads : CallBeginTransaction(t) /\ Frame
  \/ \E t \in Threads : CallCreate(t) /\ Frame
  \/ \E t \in Threads : CallCommitTransaction(t) /\ Frame
  \/ \E t \in Threads : CallRollbackTransaction(t) /\ Frame
  \/ \E t \in Threads : ReadFlag(t) /\ Frame
  \/ \E t \in Threads : Begin(t) /\ Frame
  \/ \E t \in Threads : SetFlag(t) /\ Frame
  \/ \E t \in Threads : Insert(t) /\ Frame
  \/ \E t \in Threads : Decide(t) /\ Frame
  \/ \E t \in Threads : Commit(t) /\ Frame
  \/ \E t \in Threads : ClearFlag(t) /\ Frame
  \/ \E t \in Threads : Return(t) /\ Frame
  \/ \E t \in Threads : TestFlag(t) /\ Frame
  \/ \E t \in Threads : Rollback(t) /\ Frame

SpecThreads == InitThreads /\ [][NextThreads]_vars

\* ---------------------------------------------------------------- claims
core == <<in_transaction, engine_txn, durable, working>>

\* the connection was asked d during the call c
Asked(c, d) == \E i \in 1..Len(c.trace) : c.trace[i].d = d

Statements == {"INSERT", "UPDATE", "DELETE"}

\* C1: after begin_transaction from a state with no transaction open, calls
\* of create/update/delete that all return, and rollback_transaction, the
\* contents are those before the begin and in_transaction is false.
C1_RollbackRestores ==
  batch = "rolledback" =>
    /\ working = snap
    /\ durable = snap
    /\ ~in_transaction

\* a group that had changed rows was rolled back
C1_Witness ==
  /\ batch = "rolledback"
  /\ expect # snap
  /\ snap["t"].rows # {}

\* C2: after begin_transaction, calls of create/update/delete that all return
\* and commit_transaction, the contents are those the calls produced,
\* in_transaction is false, and rollback_transaction called next undoes none.
C2_CommitKeeps ==
  /\ batch = "committed" =>
       (durable = expect /\ working = expect /\ ~in_transaction)
  /\ batch = "committed_rb" =>
       (durable = expect /\ working = expect)

\* a group that had changed rows was committed and a rollback was then asked
C2_Witness ==
  /\ batch = "committed_rb"
  /\ expect # snap
  /\ last.exc = "none"

\* the call c opened an engine transaction itself and committed it after
\* its statement
AutoManaged(c) ==
  \E i, j, k \in 1..Len(c.trace) :
    /\ i < j /\ j < k
    /\ c.trace[i] = [d |-> "BEGIN", txn |-> FALSE, ok |-> TRUE]
    /\ c.trace[j].d \in Statements /\ c.trace[j].txn /\ c.trace[j].ok
    /\ c.trace[k] = [d |-> "COMMIT", txn |-> TRUE, ok |-> TRUE]

\* C3: a create, update or delete made while in_transaction is false that
\* returns has begun and committed its own transaction: in_transaction is
\* false again, the change is durable, and rollback_transaction called next
\* leaves it in place.
C3_AutoCommit ==
  [][(last'.op \in Mutators /\ ~in_transaction /\ last'.exc = "none") =>
       /\ AutoManaged(last')
       /\ ~in_transaction'
       /\ ~engine_txn'
       /\ durable' = Effect(working, last'.op, last'.tn, last'.filters, last'.kwargs)
       /\ working' = durable'
       /\ \A rok \in BOOLEAN :
            /\ rollback_transaction(Cur, rok).st.durable' = durable'
            /\ rollback_transaction(Cur, rok).st.working' = durable']_vars

\* an auto-managed call has changed the durable rows
C3_Witness ==
  /\ last.op \in Mutators
  /\ last.exc = "none"
  /\ AutoManaged(last)
  /\ ~in_transaction
  /\ durable["t"].rows # {}

\* C4: in_transaction is true exactly when the engine has a transaction that
\* was begun and not yet committed or rolled back.
C4_FlagIffEngine == in_transaction <=> engine_txn

\* C5: within a group opened by the caller nothing becomes durable before the
\* caller's commit_transaction, also after a call of the group has raised, and
\* rollback_transaction in place of the commit restores the contents.
C5_BatchCommitsTogether ==
  /\ batch \in {"clean", "failed"} => durable = snap
  /\ batch \in {"rolledback", "rolledback_f"} => (working = snap /\ durable = snap)

\* the statement of the call c failed while the engine had a transaction open,
\* and every ROLLBACK the call asked for was completed
FailedInTransaction(c) ==
  /\ c.op \in Mutators
  /\ \E i \in 1..Len(c.trace) :
       c.trace[i].d \in Statements /\ c.trace[i].txn /\ ~c.trace[i].ok
  /\ \A i \in 1..Len(c.trace) : c.trace[i].d = "ROLLBACK" => c.trace[i].ok

\* C6: when the statement of create, update or delete fails while a
\* transaction is open, the call raises, the engine transaction is rolled
\* back and in_transaction is false.
C6_FailureRollsBack ==
  FailedInTransaction(last) =>
    /\ last.exc # "none"
    /\ ~engine_txn
    /\ working = durable
    /\ ~in_transaction

\* the call c was rejected by the validation of create or of update
Rejected(c) ==
  \/ c.op = "create" /\ c.exc \in {"ValueError", "TypeError"}
  \/ c.op = "update" /\ c.exc = "ValueError"

\* C7: a create or update rejected by validation asks the connection for no
\* BEGIN, COMMIT, ROLLBACK or statement, and leaves the contents,
\* in_transaction and an open transaction with its pending changes as they
\* were.
C7_RejectionTouchesNothing ==
  [][Rejected(last') =>
       /\ UNCHANGED core
       /\ \A d \in {"BEGIN", "COMMIT", "ROLLBACK"} \cup Statements : ~Asked(last', d)]_vars

\* a type mismatch was rejected inside a transaction with pending changes
C7_Witness ==
  /\ last.op = "create"
  /\ last.exc = "TypeError"
  /\ in_transaction
  /\ engine_txn
  /\ working # durable

\* C8: begin_transaction called while in_transaction is true raises, starts
\* no second transaction and changes nothing.
C8_NestedBeginRaises ==
  [][(last'.op = "begin_transaction" /\ in_transaction) =>
       /\ last'.exc # "none"
       /\ UNCHANGED core]_vars

\* C9: after commit_transaction, returned or raised, in_transaction is false.
C9_CommitClearsFlag == last.op = "commit_transaction" => ~in_transaction

\* C10: rollback_transaction with in_transaction false returns, asks the
\* connection for nothing and changes nothing; with in_transaction true and
\* the engine rollback completed it discards the uncommitted changes and
\* sets in_transaction to false.
C10_Rollback ==
  [][last'.op = "rollback_transaction" =>
       IF ~in_transaction
         THEN last'.exc = "none" /\ last'.trace = <<>> /\ UNCHANGED core
         ELSE last'.exc = "none" =>
                /\ Asked(last', "ROLLBACK")
                /\ working' = durable
                /\ durable' = durable
                /\ ~engine_txn'
                /\ ~in_transaction']_vars

\* rollback_transaction has discarded pending changes of an open transaction
C10_Witness ==
  /\ last.op = "rollback_transaction"
  /\ last.exc = "none"
  /\ last.trace = <<[d |-> "ROLLBACK", txn |-> TRUE, ok |-> TRUE]>>
  /\ ~in_transaction
  /\ batch = "rolledback_f"

DDLCalls == {"create_table", "drop_table"} \cup Introspections

\* C11: create_table, drop_table, table_exists, get_table_schema or
\* introspect_table called inside a transaction the caller opened leaves the
\* engine transaction open and in_transaction true, and a rollback_transaction
\* after it still restores every other table to its contents at the begin.
C11_DDLKeepsTransaction ==
  [][(last'.op \in DDLCalls /\ batch = "clean") =>
       /\ engine_txn'
       /\ in_transaction'
       /\ \A tn \in AllTables \ {last'.tn} :
            rollback_transaction(Cur, TRUE).st.working'[tn] = snap[tn]]_vars

\* C12: once close has returned, every other public call raises; none
\* returns a result and none changes the object or the database.
C12_ClosedFailsFast ==
  [][(closed /\ last'.op # "close") =>
       /\ last'.exc # "none"
       /\ UNCHANGED core]_vars

\* the connection completed every COMMIT the call c asked for
CommitsCompleted(c) ==
  \A i \in 1..Len(c.trace) : c.trace[i].d = "COMMIT" => c.trace[i].ok

\* C13: delete called with no filter field on an existing table returns,
\* removes every row of the table and returns the number of rows removed.
C13_DeleteWithoutFilters ==
  [][(/\ last'.op = "delete"
      /\ last'.kwargs = <<>>
      /\ ~closed
      /\ working[last'.tn].exists
      /\ CommitsCompleted(last')) =>
       /\ last'.exc = "none"
       /\ working'[last'.tn].rows = {}
       /\ last'.ret = RetInt(Cardinality(working[last'.tn].rows))]_vars

\* the object and the connection after the step, as a call would start from
\* them
CurNext ==
  [flag |-> in_transaction', txn |-> engine_txn', durable |-> durable',
   working |-> working', trace |-> <<>>]

\* every column named in conds holds in row the value given for it
Holds(row, conds) ==
  \A i \in 1..Len(conds) : row[conds[i].col] = conds[i].val

\* C14: after a create that returned, get and exists asked with the inserted
\* values find a row holding them, the table has exactly one row more, the
\* rows it had are unchanged, and the value returned is the id of the new
\* row, which no row had before.
C14_CreateAddsOneRow ==
  [][(last'.op = "create" /\ last'.exc = "none") =>
       LET tn == last'.tn
           kw == last'.kwargs
           old == working[tn].rows
           new == working'[tn].rows
           found == get(CurNext, tn, kw)
       IN /\ old \subseteq new
          /\ Cardinality(new) = Cardinality(old) + 1
          /\ last'.ret.k = "int"
          /\ last'.ret.n \notin Ids(old)
          /\ \A r \in new \ old : r.id.n = last'.ret.n /\ Holds(r, kw)
          /\ exists(CurNext, tn, kw).ret = RetBool(TRUE)
          /\ found.exc = "none"
          /\ found.ret.k = "row"
          /\ Holds(found.ret.rows[1], kw)]_vars

\* a create has returned the id of a second row, inside a transaction the
\* caller opened
C14_Witness ==
  /\ last.op = "create"
  /\ last.exc = "none"
  /\ last.ret = RetInt(2)
  /\ batch = "clean"
  /\ Cardinality(working["t"].rows) = 2
  /\ Cardinality(durable["t"].rows) = 1

\* C15: an update that returned has changed the rows whose columns hold
\* every filter value, in the columns named in the values only; the other
\* rows are as they were, no row came or went, and the count returned is the
\* number of rows that matched.
C15_UpdateChangesMatched ==
  [][(last'.op = "update" /\ last'.exc = "none") =>
       LET tn == last'.tn
           f == last'.filters
           kw == last'.kwargs
           old == working[tn].rows
           new == working'[tn].rows
           after(r) == IF Holds(r, f)
                         THEN [c \in Columns |->
                                 IF c \in Keys(kw) THEN Lookup(kw, c) ELSE r[c]]
                         ELSE r
       IN /\ new = {after(r) : r \in old}
          /\ Ids(new) = Ids(old)
          /\ Cardinality(new) = Cardinality(old)
          /\ last'.ret = RetInt(Cardinality({r \in old : Holds(r, f)}))]_vars

\* an update has changed one of two rows and left the other as it was
C15_Witness ==
  /\ last.op = "update"
  /\ last.exc = "none"
  /\ last.ret = RetInt(1)
  /\ \E r1, r2 \in working["t"].rows :
       /\ r1 # r2
       /\ Holds(r1, last.kwargs)
       /\ ~Holds(r2, last.kwargs)
       /\ ~Holds(r2, last.filters)

\* C16: a delete with at least one filter pair, of integer or text values
\* whatever their characters, on columns of an existing table returns,
\* removes exactly the rows whose columns hold every filter value and
\* returns how many it removed.
C16_DeleteRemovesMatched ==
  [][(/\ last'.op = "delete"
      /\ last'.kwargs # <<>>
      /\ ~closed
      /\ working[last'.tn].exists
      /\ Keys(last'.kwargs) \subseteq Columns
      /\ CommitsCompleted(last')) =>
       LET old == working[last'.tn].rows
           gone == {r \in old : Holds(r, last'.kwargs)}
       IN /\ last'.exc = "none"
          /\ working'[last'.tn].rows = old \ gone
          /\ last'.ret = RetInt(Cardinality(gone))]_vars

\* filters whose values are of the type of their column
TypedFilters ==
  {<<>>}
  \cup {<<KW("name", StrV(x))>> : x \in TextValues}
  \cup {<<KW("age", IntV(n))>> : n \in IntValues}
  \cup {<<KW("id", IntV(n))>> : n \in 1..MaxRowId}
  \cup {<<KW("name", StrV(x)), KW("age", IntV(n))>> : x \in TextValues, n \in IntValues}

\* the rows of table tn, as the connection sees them, that hold every pair
\* of F
Current(tn, F) ==
  IF working[tn].exists THEN {r \in working[tn].rows : Holds(r, F)} ELSE {}

C18_MissingTableFailsFirst ==
  [][(last'.op \in Mutators /\ ~closed /\ ~working[last'.tn].exists) =>
       /\ last'.exc # "none"
       /\ ~Asked(last', "BEGIN")
       /\ in_transaction' = in_transaction]_vars

\* C19: get, filter, all, exists and count, whether they return rows, fail
\* on their statement or are refused for want of a condition, leave
\* in_transaction, the engine transaction, the durable contents and the
\* pending changes as they were, and ask for no BEGIN, COMMIT or ROLLBACK.
C19_ReadsChangeNothing ==
  [][last'.op \in Reads =>
       /\ UNCHANGED core
       /\ \A d \in {"BEGIN", "COMMIT", "ROLLBACK"} : ~Asked(last', d)]_vars

\* a read has returned rows while a transaction held pending changes
C19_Witness ==
  /\ last.op = "filter"
  /\ last.exc = "none"
  /\ last.ret.rows # <<>>
  /\ in_transaction
  /\ engine_txn
  /\ working # durable

\* C20: with two threads and no lock, a create made by a thread that has no
\* transaction of its own can return with its row not committed and lose it
\* to the other thread's rollback_transaction, and can raise because its
\* BEGIN came while the other thread's transaction was open; and these come
\* from the other thread only: when such a create returns, its row is
\* durable, or pending in a transaction the other thread began, or was
\* discarded by the other thread's ROLLBACK, and when it raises, its BEGIN
\* was refused inside a transaction the other thread began.
C20_OnlyTheOtherThread ==
  [][\A t \in Threads :
       (pc[t].op = "create" /\ pc[t].clean /\ pc[t].at # "done" /\ pc'[t].at = "done") =>
         IF pc'[t].res = "returned"
           THEN \/ Inserted(t, durable["t"].rows)
                \/ /\ pc'[t].pending
                   /\ engine_txn'
                   /\ owner' \in Threads \ {t}
                \/ /\ ~Inserted(t, working["t"].rows)
                   /\ pc[t].undone \in Threads \ {t}
           ELSE /\ pc[t].at = "begin"
                /\ engine_txn
                /\ owner \in Threads \ {t}]_vars

\* both have happened: a returned create lost its row to the other thread's
\* rollback_transaction, and a create was refused its BEGIN
C20_Witness == seen = {"undone", "refused"}

\* C21: whenever the engine has a transaction open, in_transaction is true
\* (the flag may be true with no engine transaction, never the reverse); so
\* a BEGIN that create, update or delete asks for is never refused for
\* finding a transaction already open. This holds whether or not the engine
\* completes its rollbacks.
C21_FlagCoversEngine ==
  /\ engine_txn => in_transaction
  /\ last.op \in Mutators =>
       \A i \in 1..Len(last.trace) :
         last.trace[i].d = "BEGIN" => (~last.trace[i].txn /\ last.trace[i].ok)

\* a create that found in_transaction true has put its row into the open
\* transaction and left it open
C21_Witness ==
  /\ last.op = "create"
  /\ last.exc = "none"
  /\ ~Asked(last, "BEGIN")
  /\ \E i \in 1..Len(last.trace) :
       last.trace[i] = [d |-> "INSERT", txn |-> TRUE, ok |-> TRUE]
  /\ engine_txn
  /\ in_transaction
  /\ working # durable

====
